---- MODULE Spec2Model ----
(***************************************************************************)
(* Model of MevAPI.SendBid (package ethapi), the bid admission validator   *)
(* that stands between builders and the miner's bid simulator.             *)
(*                                                                         *)
(* Two specifications share the definitions of the checks:                 *)
(*   Spec      one builder; every SendBid call is one atomic step, the     *)
(*             Backend changes between calls.                              *)
(*   ConcSpec  several builders; SendBid is split at each Backend access   *)
(*             (MevRunning, MinerInTurn, CurrentHeader, SendBid) and the   *)
(*             Backend changes between any two of them.                    *)
(*                                                                         *)
(* Optional values (pointers, *big.Int) are sequences of length <= 1:      *)
(* <<>> is nil, <<v>> is a present value v.  Block heights stay far below  *)
(* 2^64, so Number.Uint64()+1 is modelled without wrap-around.             *)
(***************************************************************************)
EXTENDS Integers, Sequences, FiniteSets, TLC

\* ------------------------------------------------------------------ bounds
MaxHeight == 1
MaxFee == 2
MaxBids == 2

\* ------------------------------------------------------- program constants
TransferTxGasLimit == 25000

\* ------------------------------------------------------------------- values
Nil == <<>>
Some(v) == <<v>>
IsNil(x) == x = <<>>
Val(x) == x[1]

Big0 == 0
Cmp(x, y) == IF x < y THEN -1 ELSE IF x = y THEN 0 ELSE 1

\* common.Hash{}: the zero hash returned with every rejection
ZeroHash == 0

\* Header.Hash(): injective in the header; never the zero hash
Hash(header) == header.Number + 1

Headers == [Number : 0..MaxHeight]
Hashes == {ZeroHash} \cup {Hash(h) : h \in Headers}

BigInts == (0 - 1)..MaxFee
OptBigInts == {Nil} \cup {Some(v) : v \in BigInts}

RawBids ==
    [BlockNumber : 0..(MaxHeight + 1),
     ParentHash : Hashes,
     GasFee : OptBigInts,
     GasUsed : {0, 21000},
     BuilderFee : OptBigInts]

BidArgs ==
    [RawBid : {Nil} \cup {Some(b) : b \in RawBids},
     PayBidTx : {<<>>, <<1>>},
     PayBidTxGasUsed : {0, 21000, TransferTxGasLimit, TransferTxGasLimit + 1}]

\* ------------------------------------------------------------------ results
\* (common.Hash, error): err is the error's type, msg its text
Ok(hash) == [hash |-> hash, err |-> "nil", msg |-> ""]
ErrMevNotRunning == [hash |-> ZeroHash, err |-> "MevNotRunning", msg |-> "mev not running"]
ErrMevNotInTurn == [hash |-> ZeroHash, err |-> "MevNotInTurn", msg |-> "mev not in turn"]
NewInvalidBidError(m) == [hash |-> ZeroHash, err |-> "InvalidBid", msg |-> m]
NewInvalidPayBidTxError(m) == [hash |-> ZeroHash, err |-> "InvalidPayBidTx", msg |-> m]

\* what the Backend's SendBid may answer: a bid hash, or an error of its own
BackendReturns ==
    {Ok(1), [hash |-> ZeroHash, err |-> "BackendError", msg |-> "simulation failed"]}

\* the marker for "every check passed": the call goes on to the Backend
Pass == [hash |-> ZeroHash, err |-> "pass", msg |-> ""]

\* ------------------------------------------------------------------- checks
\* faulty variant: only a stale block number is turned away
WrongBlockNumberStaleOnly(rawBid, header) == rawBid.BlockNumber < header.Number + 1

\* line 50: rawBid.BlockNumber != currentHeader.Number.Uint64()+1
WrongBlockNumber(rawBid, header) == rawBid.BlockNumber # header.Number + 1

\* line 54: rawBid.ParentHash != currentHeader.Hash()
WrongParentHash(rawBid, header) == rawBid.ParentHash # Hash(header)

\* line 59
EmptyGasFeeOrGasUsed(rawBid) ==
    \/ IsNil(rawBid.GasFee)
    \/ Cmp(Val(rawBid.GasFee), Big0) = 0
    \/ rawBid.GasUsed = 0

\* faulty variant: payBidTxGasUsed is forgotten
HasPayBidTxLenOnly(a) == Len(a.PayBidTx) # 0

\* lines 70 and 93: len(args.PayBidTx) != 0 || args.PayBidTxGasUsed != 0
HasPayBidTx(a) == Len(a.PayBidTx) # 0 \/ a.PayBidTxGasUsed # 0

\* line 82
TransferGasExceeded(a) == a.PayBidTxGasUsed > TransferTxGasLimit

\* faulty variant: the second half of the condition is forgotten
NonAlignedPayBidTxHalf(a) == Len(a.PayBidTx) = 0 /\ a.PayBidTxGasUsed # 0

\* lines 87-88
NonAlignedPayBidTx(a) ==
    \/ (Len(a.PayBidTx) = 0 /\ a.PayBidTxGasUsed # 0)
    \/ (Len(a.PayBidTx) # 0 /\ a.PayBidTxGasUsed = 0)

\* faulty variant: the alignment is checked before the gas ceiling
CheckSettlementSwapped(a) ==
    IF NonAlignedPayBidTx(a)
    THEN NewInvalidPayBidTxError("non-aligned payBidTx and payBidTxGasUsed")
    ELSE IF TransferGasExceeded(a)
    THEN NewInvalidBidError("transfer tx gas used must be no more than 25000")
    ELSE Pass

\* lines 79-91: the checks made when builderFee > 0
CheckSettlement(a) ==
    IF TransferGasExceeded(a)
    THEN NewInvalidBidError("transfer tx gas used must be no more than 25000")
    ELSE IF NonAlignedPayBidTx(a)
    THEN NewInvalidPayBidTxError("non-aligned payBidTx and payBidTxGasUsed")
    ELSE Pass

\* lines 63-96: the builder fee and the pay-bid transaction
CheckBuilderFee(a, rawBid) ==
    IF ~IsNil(rawBid.BuilderFee)
    THEN LET builderFee == Val(rawBid.BuilderFee) IN
         IF Cmp(builderFee, Big0) < 0
         THEN NewInvalidBidError("builder fee should not be less than 0")
         ELSE IF Cmp(builderFee, Big0) = 0 /\ HasPayBidTx(a)
         THEN NewInvalidPayBidTxError("payBidTx should be nil when builder fee is 0")
         ELSE IF Cmp(builderFee, Val(rawBid.GasFee)) >= 0
         THEN NewInvalidBidError("builder fee must be less than gas fee")
         ELSE IF Cmp(builderFee, Big0) > 0
         THEN CheckSettlement(a)
         ELSE Pass
    ELSE IF HasPayBidTx(a)
         THEN NewInvalidPayBidTxError("payBidTx should be nil when builder fee is nil")
         ELSE Pass

\* lines 59-96: the fee fields
CheckFees(a, rawBid) ==
    IF EmptyGasFeeOrGasUsed(rawBid)
    THEN NewInvalidBidError("empty gasFee or empty gasUsed")
    ELSE CheckBuilderFee(a, rawBid)

\* lines 45-96: the checks of the bid against the header the call read;
\* numberHeader is the header of the block number check, hashHeader the one
\* of the parent hash check (one and the same in SendBid)
CheckBidAgainst(a, numberHeader, hashHeader) ==
    IF IsNil(a.RawBid)
    THEN NewInvalidBidError("rawBid should not be nil")
    ELSE LET rawBid == Val(a.RawBid) IN
         IF WrongBlockNumber(rawBid, numberHeader)
         THEN NewInvalidBidError("stale block number or block in future")
         ELSE IF WrongParentHash(rawBid, hashHeader)
         THEN NewInvalidBidError("non-aligned parent hash")
         ELSE CheckFees(a, rawBid)

CheckBid(a, header) == CheckBidAgainst(a, header, header)

\* faulty variant: the turn is checked before the mev switch
AdmitTurnFirst(running, inTurn, header, a) ==
    IF ~inTurn THEN ErrMevNotInTurn
    ELSE IF ~running THEN ErrMevNotRunning
    ELSE CheckBid(a, header)

\* lines 32-96: the gate, then the checks of the bid
Admit(running, inTurn, header, a) ==
    IF ~running THEN ErrMevNotRunning
    ELSE IF ~inTurn THEN ErrMevNotInTurn
    ELSE CheckBid(a, header)

\* faulty variant: a Backend error is wrapped into an invalid-bid error
ReturnOfWrapped(backendReturn) ==
    IF backendReturn.err = "nil" THEN backendReturn
    ELSE NewInvalidBidError(backendReturn.msg)

\* line 98: SendBid returns what the Backend's SendBid returned
ReturnOf(backendReturn) == backendReturn

\* line 98: the invocations of the Backend's SendBid one admitted call makes
BackendCalls(a) == <<a>>

\* -------------------------------------------------------------------- state
Callers == {1, 2}

VARIABLES
    mevRunning,     \* Backend: MevRunning()
    minerInTurn,    \* Backend: MinerInTurn()
    head,           \* Backend: CurrentHeader()
    received,       \* Backend: the number of bids its SendBid has taken in
    pc,             \* per caller: where its SendBid call stands
    args,           \* per caller: the arguments of its call (args)
    currentHeader,  \* per caller: the header its call read (currentHeader)
    sent,           \* per caller: the bids its call handed to the Backend
    bret,           \* per caller: what the Backend's SendBid returned to it
    ret,            \* per caller: what SendBid returned
    seen,           \* per caller: the heads of the chain during its call
    before          \* the builder of Spec: what it did just before this call

backend == <<mevRunning, minerInTurn, head, received>>
locals == <<pc, args, currentHeader, sent, bret, ret>>
vars == <<mevRunning, minerInTurn, head, received,
          pc, args, currentHeader, sent, bret, ret, seen, before>>

Init ==
    /\ mevRunning \in BOOLEAN
    /\ minerInTurn \in BOOLEAN
    /\ head = [Number |-> 0]
    /\ received = 0
    /\ pc = [p \in Callers |-> "idle"]
    /\ args = [p \in Callers |-> Nil]
    /\ currentHeader = [p \in Callers |-> Nil]
    /\ sent = [p \in Callers |-> <<>>]
    /\ bret = [p \in Callers |-> Nil]
    /\ ret = [p \in Callers |-> Nil]
    /\ seen = [p \in Callers |-> {}]
    /\ before = "none"

\* ------------------------------------------------------------------ Backend
\* the mev switch of the miner is turned on or off
SetMevRunning ==
    /\ mevRunning' = ~mevRunning
    /\ UNCHANGED <<minerInTurn, head, received, locals, seen, before>>

\* the proposer schedule moves on
SetMinerInTurn ==
    /\ minerInTurn' = ~minerInTurn
    /\ UNCHANGED <<mevRunning, head, received, locals, seen, before>>

\* the chain grows by a block
NewHead ==
    /\ head.Number < MaxHeight
    /\ head' = [Number |-> head.Number + 1]
    /\ seen' = [p \in Callers |->
                  IF pc[p] \in {"idle", "done"} THEN seen[p] ELSE seen[p] \cup {head'}]
    /\ UNCHANGED <<mevRunning, minerInTurn, received, locals, before>>

BackendStep == SetMevRunning \/ SetMinerInTurn \/ NewHead

\* --------------------------------------------------- SendBid, step by step
Rejected(p) == ret[p] # Nil /\ sent[p] = <<>>
Forwarded(p) == ret[p] # Nil /\ sent[p] # <<>>

Finished(p, r) ==
    /\ pc' = [pc EXCEPT ![p] = "done"]
    /\ ret' = [ret EXCEPT ![p] = Some(r)]

\* a builder calls SendBid(ctx, a)
Begin(p, a) ==
    /\ pc[p] = "idle"
    /\ pc' = [pc EXCEPT ![p] = "running"]
    /\ args' = [args EXCEPT ![p] = Some(a)]
    /\ seen' = [seen EXCEPT ![p] = {head}]
    /\ UNCHANGED <<backend, currentHeader, sent, bret, ret, before>>

\* lines 32-34
CheckMevRunning(p) ==
    /\ pc[p] = "running"
    /\ IF ~mevRunning
       THEN Finished(p, ErrMevNotRunning)
       ELSE pc' = [pc EXCEPT ![p] = "inturn"] /\ UNCHANGED ret
    /\ UNCHANGED <<backend, args, currentHeader, sent, bret, seen, before>>

\* lines 36-38
CheckMinerInTurn(p) ==
    /\ pc[p] = "inturn"
    /\ IF ~minerInTurn
       THEN Finished(p, ErrMevNotInTurn)
       ELSE pc' = [pc EXCEPT ![p] = "header"] /\ UNCHANGED ret
    /\ UNCHANGED <<backend, args, currentHeader, sent, bret, seen, before>>

\* line 42
ReadCurrentHeader(p) ==
    /\ pc[p] = "header"
    /\ currentHeader' = [currentHeader EXCEPT ![p] = Some(head)]
    /\ pc' = [pc EXCEPT ![p] = "check"]
    /\ UNCHANGED <<backend, args, sent, bret, ret, seen, before>>

\* faulty variant: the parent hash is checked against a second CurrentHeader()
ValidateSecondRead(p) ==
    /\ pc[p] = "check"
    /\ LET r == CheckBidAgainst(Val(args[p]), Val(currentHeader[p]), head) IN
       IF r = Pass
       THEN pc' = [pc EXCEPT ![p] = "send"] /\ UNCHANGED ret
       ELSE Finished(p, r)
    /\ UNCHANGED <<backend, args, currentHeader, sent, bret, seen, before>>

\* lines 45-96, on the call's own copies of the bid and the header
Validate(p) ==
    /\ pc[p] = "check"
    /\ LET r == CheckBid(Val(args[p]), Val(currentHeader[p])) IN
       IF r = Pass
       THEN pc' = [pc EXCEPT ![p] = "send"] /\ UNCHANGED ret
       ELSE Finished(p, r)
    /\ UNCHANGED <<backend, args, currentHeader, sent, bret, seen, before>>

\* line 98
Forward(p) ==
    /\ pc[p] = "send"
    /\ received + Len(BackendCalls(Val(args[p]))) <= MaxBids
    /\ \E r \in BackendReturns :
         /\ bret' = [bret EXCEPT ![p] = Some(r)]
         /\ Finished(p, ReturnOf(r))
    /\ sent' = [sent EXCEPT ![p] = BackendCalls(Val(args[p]))]
    /\ received' = received + Len(BackendCalls(Val(args[p])))
    /\ UNCHANGED <<mevRunning, minerInTurn, head, args, currentHeader, seen, before>>

\* the builder has its answer; the call's frame is gone
Return(p) ==
    /\ pc[p] = "done"
    /\ pc' = [pc EXCEPT ![p] = "idle"]
    /\ args' = [args EXCEPT ![p] = Nil]
    /\ currentHeader' = [currentHeader EXCEPT ![p] = Nil]
    /\ sent' = [sent EXCEPT ![p] = <<>>]
    /\ bret' = [bret EXCEPT ![p] = Nil]
    /\ ret' = [ret EXCEPT ![p] = Nil]
    /\ seen' = [seen EXCEPT ![p] = {}]

\* faulty variant: the bid goes to the Backend first and is checked afterwards
CallSubmitFirst(p, a) ==
    /\ args' = [args EXCEPT ![p] = Some(a)]
    /\ seen' = [seen EXCEPT ![p] = {head}]
    /\ currentHeader' = [currentHeader EXCEPT ![p] =
           IF mevRunning /\ minerInTurn THEN Some(head) ELSE Nil]
    /\ received + 1 <= MaxBids
    /\ received' = received + 1
    /\ LET r == Admit(mevRunning, minerInTurn, head, a) IN
       IF r = Pass
       THEN /\ \E b \in BackendReturns :
                 /\ bret' = [bret EXCEPT ![p] = Some(b)]
                 /\ Finished(p, b)
            /\ sent' = [sent EXCEPT ![p] = <<a>>]
       ELSE /\ Finished(p, r)
            /\ bret' = [bret EXCEPT ![p] = Nil]
            /\ sent' = [sent EXCEPT ![p] = <<>>]
    /\ UNCHANGED <<mevRunning, minerInTurn, head>>

\* ------------------------------------------------ SendBid, as a whole call
\* lines 31-99 in one step: no Backend change falls inside the call
Call(p, a) ==
    /\ args' = [args EXCEPT ![p] = Some(a)]
    /\ seen' = [seen EXCEPT ![p] = {head}]
    /\ currentHeader' = [currentHeader EXCEPT ![p] =
           IF mevRunning /\ minerInTurn THEN Some(head) ELSE Nil]
    /\ LET r == Admit(mevRunning, minerInTurn, head, a) IN
       IF r = Pass
       THEN /\ received + Len(BackendCalls(a)) <= MaxBids
            /\ \E b \in BackendReturns :
                 /\ bret' = [bret EXCEPT ![p] = Some(b)]
                 /\ Finished(p, ReturnOf(b))
            /\ sent' = [sent EXCEPT ![p] = BackendCalls(a)]
            /\ received' = received + Len(BackendCalls(a))
       ELSE /\ Finished(p, r)
            /\ bret' = [bret EXCEPT ![p] = Nil]
            /\ sent' = [sent EXCEPT ![p] = <<>>]
            /\ UNCHANGED received
    /\ UNCHANGED <<mevRunning, minerInTurn, head>>

\* the builder of Spec submits a bid
SendBid ==
    /\ pc[1] = "idle"
    /\ \E a \in BidArgs : Call(1, a)
    /\ UNCHANGED before

\* the builder of Spec submits the bid just rejected once more, at once
Resubmit ==
    /\ pc[1] = "done"
    /\ Rejected(1)
    /\ Call(1, Val(args[1]))
    /\ before' = "resubmitted"

\* the builder of Spec takes its answer
Answered ==
    /\ Return(1)
    /\ before' = IF ~Rejected(1) THEN "none"
                  ELSE IF before = "resubmitted" THEN "rejected twice"
                  ELSE "rejected"
    /\ UNCHANGED backend

\* the Backend moves between two calls of the builder
Between ==
    /\ pc[1] = "idle"
    /\ BackendStep

Next ==
    \/ SendBid
    \/ Resubmit
    \/ Answered
    \/ Between

Spec == Init /\ [][Next]_vars

\* ----------------------------------------------------------- several callers
\* the bids of ConcSpec: for every two headers, the bid on the block after the
\* one with the parent hash of the other, with fee fields that pass
ConcArgs ==
    {a \in BidArgs :
        /\ ~IsNil(a.RawBid)
        /\ Val(a.RawBid).BlockNumber # 0
        /\ Val(a.RawBid).ParentHash # ZeroHash
        /\ Val(a.RawBid).GasFee = Some(1)
        /\ Val(a.RawBid).GasUsed = 21000
        /\ Val(a.RawBid).BuilderFee = Nil
        /\ ~HasPayBidTx(a)}

ConcReturn(p) ==
    /\ Return(p)
    /\ UNCHANGED <<backend, before>>

ConcNext ==
    \/ \E p \in Callers : \E a \in ConcArgs : Begin(p, a)
    \/ \E p \in Callers : CheckMevRunning(p)
    \/ \E p \in Callers : CheckMinerInTurn(p)
    \/ \E p \in Callers : ReadCurrentHeader(p)
    \/ \E p \in Callers : Validate(p)
    \/ \E p \in Callers : Forward(p)
    \/ \E p \in Callers : ConcReturn(p)
    \/ BackendStep

ConcSpec == Init /\ [][ConcNext]_vars

\* =================================================================== claims
\* In Spec the Backend stands still from the start of a call until the builder
\* has taken its answer, so in a state with pc[1] = "done" the Backend's
\* mevRunning, minerInTurn and head are those the call read.
Done == pc[1] = "done"
GateOpen == mevRunning /\ minerInTurn
TheArgs == Val(args[1])
TheBid == Val(TheArgs.RawBid)
TheRet == Val(ret[1])
HasBid == ~IsNil(TheArgs.RawBid)

\* the invariant set of a bid against a header, as the data model states it
NoPayBidData(a) == Len(a.PayBidTx) = 0 /\ a.PayBidTxGasUsed = 0

InvariantSet(a, header) ==
    /\ ~IsNil(a.RawBid)
    /\ LET b == Val(a.RawBid) IN
       /\ b.BlockNumber = header.Number + 1
       /\ b.ParentHash = Hash(header)
       /\ ~IsNil(b.GasFee)
       /\ Val(b.GasFee) # 0
       /\ b.GasUsed # 0
       /\ \/ IsNil(b.BuilderFee) /\ NoPayBidData(a)
          \/ /\ ~IsNil(b.BuilderFee)
             /\ Val(b.BuilderFee) = 0
             /\ 0 < Val(b.GasFee)
             /\ NoPayBidData(a)
          \/ /\ ~IsNil(b.BuilderFee)
             /\ 0 < Val(b.BuilderFee)
             /\ Val(b.BuilderFee) < Val(b.GasFee)
             /\ a.PayBidTxGasUsed <= 25000
             /\ (Len(a.PayBidTx) # 0 <=> a.PayBidTxGasUsed # 0)

\* C1: with bidding running and the node in turn, a bid is handed to the
\* Backend's SendBid if and only if the whole invariant set holds against the
\* header the call read; every other bid is rejected and the Backend's SendBid
\* is not called.
C1_ForwardIffInvariantSet ==
    (Done /\ GateOpen) =>
        /\ InvariantSet(TheArgs, Val(currentHeader[1])) =>
               (Forwarded(1) /\ sent[1] = <<TheArgs>>)
        /\ ~InvariantSet(TheArgs, Val(currentHeader[1])) =>
               (Rejected(1) /\ TheRet.err \in {"InvalidBid", "InvalidPayBidTx"})

\* a bid with a builder fee and a pay-bid transaction has been forwarded
C1_Witness ==
    /\ Done /\ GateOpen /\ Forwarded(1)
    /\ HasBid
    /\ ~IsNil(TheBid.BuilderFee)
    /\ Val(TheBid.BuilderFee) > 0
    /\ Len(TheArgs.PayBidTx) # 0

\* C2: the gate decides first.  Bidding not running: ErrMevNotRunning for every
\* bid, a nil rawBid included, in turn or not.  Running but not in turn:
\* ErrMevNotInTurn for every bid.  The Backend's SendBid is called in neither.
C2_GateFirst ==
    /\ (Done /\ ~mevRunning) => (TheRet = ErrMevNotRunning /\ sent[1] = <<>>)
    /\ (Done /\ mevRunning /\ ~minerInTurn) =>
           (TheRet = ErrMevNotInTurn /\ sent[1] = <<>>)

\* a nil rawBid was submitted while bidding was not running and the node was
\* in turn
C2_Witness ==
    /\ Done /\ ~mevRunning /\ minerInTurn
    /\ ~HasBid
    /\ TheRet = ErrMevNotRunning

\* C3, as stated: every bid with blockNumber != currentHeight + 1 gets
\* InvalidBid, and the Backend's SendBid is not called.
C3_Original ==
    (Done /\ HasBid /\ TheBid.BlockNumber # head.Number + 1) =>
        (TheRet.err = "InvalidBid" /\ sent[1] = <<>>)

\* C3, amended: no bid with blockNumber != currentHeight + 1 reaches the
\* Backend's SendBid; with bidding running and the node in turn it gets
\* InvalidBid, otherwise the gate's ErrMevNotRunning or ErrMevNotInTurn.
C3_WrongBlockNumber ==
    (Done /\ HasBid /\ TheBid.BlockNumber # head.Number + 1) =>
        /\ sent[1] = <<>>
        /\ GateOpen => TheRet.err = "InvalidBid"
        /\ ~GateOpen => TheRet.err \in {"MevNotRunning", "MevNotInTurn"}

\* a bid for a block in the future, its other fields in order, was rejected
C3_Witness ==
    /\ Done /\ GateOpen /\ HasBid
    /\ TheBid.BlockNumber > head.Number + 1
    /\ TheBid.ParentHash = Hash(head)
    /\ ~EmptyGasFeeOrGasUsed(TheBid)
    /\ TheRet.err = "InvalidBid"

\* C4, read with the gate open: every bid with builderFee present and
\* builderFee >= gasFee gets InvalidBid, whatever its other fields and the
\* signs of the two fees.
C4_BuilderFeeNotBelowGasFee ==
    (/\ Done /\ GateOpen /\ HasBid
     /\ ~IsNil(TheBid.BuilderFee)
     /\ ~IsNil(TheBid.GasFee)
     /\ Val(TheBid.BuilderFee) >= Val(TheBid.GasFee)) =>
        TheRet.err = "InvalidBid"

\* C5: no bid whose gasFee is nil, zero or negative is handed to the Backend's
\* SendBid.
C5_GasFeePositive ==
    (Done /\ Forwarded(1)) =>
        (HasBid /\ ~IsNil(TheBid.GasFee) /\ Val(TheBid.GasFee) > 0)

\* the pay-bid data that C6 is about
C6_Case ==
    /\ Done /\ HasBid
    /\ IsNil(TheBid.BuilderFee) \/ Val(TheBid.BuilderFee) = 0
    /\ \/ Len(TheArgs.PayBidTx) # 0
       \/ (~IsNil(TheBid.BuilderFee) /\ TheArgs.PayBidTxGasUsed # 0)

\* the checks that come before the builder fee's all pass
C6_EarlierChecksPass ==
    /\ GateOpen
    /\ TheBid.BlockNumber = head.Number + 1
    /\ TheBid.ParentHash = Hash(head)
    /\ ~IsNil(TheBid.GasFee)
    /\ Val(TheBid.GasFee) # 0
    /\ TheBid.GasUsed # 0

\* C6, as stated: every bid whose builderFee is 0 or absent and whose payBidTx
\* is non-empty (or, for builderFee = 0, whose payBidTxGasUsed is non-zero)
\* gets InvalidPayBidTx.
C6_Original == C6_Case => TheRet.err = "InvalidPayBidTx"

\* C6, amended: such a bid gets InvalidPayBidTx when the checks before the
\* builder fee's pass (running, in turn, block number, parent hash, gasFee and
\* gasUsed non-empty); when one of them fails the bid gets that check's error.
C6_PayBidTxWithoutBuilderFee ==
    /\ (C6_Case /\ C6_EarlierChecksPass) => TheRet.err = "InvalidPayBidTx"
    /\ (C6_Case /\ ~C6_EarlierChecksPass) =>
           TheRet.err \in {"MevNotRunning", "MevNotInTurn", "InvalidBid"}
    /\ C6_Case => Rejected(1)

\* builderFee = 0, no payBidTx, but a payBidTxGasUsed: InvalidPayBidTx
C6_Witness ==
    /\ C6_Case /\ C6_EarlierChecksPass
    /\ ~IsNil(TheBid.BuilderFee)
    /\ Len(TheArgs.PayBidTx) = 0
    /\ TheRet.err = "InvalidPayBidTx"

\* the checks in their fixed order, each stated on its own: when it fails and
\* what it answers
ChecksInOrder(running, inTurn, a, header) ==
    LET has == ~IsNil(a.RawBid)
        b == Val(a.RawBid)
        fee == has /\ ~IsNil(b.BuilderFee)
        payData == Len(a.PayBidTx) # 0 \/ a.PayBidTxGasUsed # 0
    IN <<
      [fails |-> ~running, r |-> ErrMevNotRunning],
      [fails |-> ~inTurn, r |-> ErrMevNotInTurn],
      [fails |-> ~has, r |-> NewInvalidBidError("rawBid should not be nil")],
      [fails |-> has /\ b.BlockNumber # header.Number + 1,
       r |-> NewInvalidBidError("stale block number or block in future")],
      [fails |-> has /\ b.ParentHash # Hash(header),
       r |-> NewInvalidBidError("non-aligned parent hash")],
      [fails |-> has /\ (IsNil(b.GasFee) \/ Val(b.GasFee) = 0 \/ b.GasUsed = 0),
       r |-> NewInvalidBidError("empty gasFee or empty gasUsed")],
      [fails |-> fee /\ Val(b.BuilderFee) < 0,
       r |-> NewInvalidBidError("builder fee should not be less than 0")],
      [fails |-> fee /\ Val(b.BuilderFee) = 0 /\ payData,
       r |-> NewInvalidPayBidTxError("payBidTx should be nil when builder fee is 0")],
      [fails |-> fee /\ ~IsNil(b.GasFee) /\ Val(b.BuilderFee) >= Val(b.GasFee),
       r |-> NewInvalidBidError("builder fee must be less than gas fee")],
      [fails |-> fee /\ Val(b.BuilderFee) > 0 /\ a.PayBidTxGasUsed > 25000,
       r |-> NewInvalidBidError("transfer tx gas used must be no more than 25000")],
      [fails |-> fee /\ Val(b.BuilderFee) > 0
                     /\ ((Len(a.PayBidTx) = 0) # (a.PayBidTxGasUsed = 0)),
       r |-> NewInvalidPayBidTxError("non-aligned payBidTx and payBidTxGasUsed")],
      [fails |-> has /\ IsNil(b.BuilderFee) /\ payData,
       r |-> NewInvalidPayBidTxError("payBidTx should be nil when builder fee is nil")]
    >>

FirstFailing(checks) ==
    IF \A k \in DOMAIN checks : ~checks[k].fails THEN 0
    ELSE CHOOSE k \in DOMAIN checks :
             /\ checks[k].fails
             /\ \A j \in 1..(k - 1) : ~checks[j].fails

\* C7: SendBid answers with the error of the first failing check in the order
\* running, in turn, nil rawBid, block number, parent hash, gasFee/gasUsed,
\* builderFee < 0, builderFee = 0 with pay-bid data, builderFee >= gasFee,
\* payBidTxGasUsed > 25000, payBidTx/payBidTxGasUsed mismatch, absent
\* builderFee with pay-bid data.  A wrong parent hash is InvalidBid whatever the
\* fee fields are, and a gas-ceiling violation is InvalidBid even when the
\* payBidTx presence is mismatched too.
C7_FirstFailingCheck ==
    Done =>
      LET checks == ChecksInOrder(mevRunning, minerInTurn, TheArgs, head)
          k == FirstFailing(checks)
      IN /\ k = 0 => Forwarded(1)
         /\ k # 0 => (Rejected(1) /\ TheRet = checks[k].r)
         /\ (GateOpen /\ HasBid /\ ~checks[4].fails /\ checks[5].fails) =>
                TheRet = NewInvalidBidError("non-aligned parent hash")
         /\ (checks[10].fails /\ checks[11].fails /\ k >= 10) =>
                TheRet.err = "InvalidBid"

\* the gas ceiling is exceeded and the payBidTx is missing: InvalidBid
C7_Witness ==
    /\ Done /\ GateOpen /\ HasBid
    /\ TheArgs.PayBidTxGasUsed > 25000
    /\ Len(TheArgs.PayBidTx) = 0
    /\ TheRet = NewInvalidBidError("transfer tx gas used must be no more than 25000")

\* C8: when every check passes, the Backend's SendBid is called exactly once,
\* with the arguments of the call unchanged, and SendBid returns exactly what
\* that one call returned, a hash or an error; an error is not retried.
C8_ForwardOnce ==
    /\ (Done /\ GateOpen /\ CheckBid(TheArgs, head) = Pass) =>
           /\ sent[1] = <<TheArgs>>
           /\ bret[1] # Nil
           /\ TheRet = Val(bret[1])
    /\ (Done /\ sent[1] # <<>>) => (GateOpen /\ CheckBid(TheArgs, head) = Pass)

\* the Backend failed and its error came back to the builder
C8_Witness ==
    /\ Done /\ sent[1] = <<TheArgs>>
    /\ TheRet.err = "BackendError"
    /\ received = 1

\* a step that is the second submission of the bid just rejected
C9_SameErrorTwice ==
    (before' = "resubmitted") =>
        /\ args'[1] = args[1]
        /\ Rejected(1)'
        /\ Val(ret'[1]).err = Val(ret[1]).err

\* a step that is a rejected call
C9_RejectionLeavesNoTrace ==
    (pc'[1] = "done" /\ Rejected(1)') => UNCHANGED backend

\* a valid bid submitted after one or two rejections
C9_StillForwarded ==
    (Done /\ before \in {"rejected", "rejected twice"} /\ GateOpen
          /\ InvariantSet(TheArgs, head)) => Forwarded(1)

\* C9: rejection is idempotent and leaves no trace.  The same invalid bid
\* submitted twice gets the same kind of error; a rejected call changes nothing
\* of the Backend (the validator has no state of its own); and after rejected
\* submissions a valid bid is still handed to the Backend.
C9_RejectionIdempotent ==
    /\ [][C9_SameErrorTwice]_vars
    /\ [][C9_RejectionLeavesNoTrace]_vars
    /\ []C9_StillForwarded

\* an invalid bid was rejected twice in a row, and the valid bid submitted next
\* was handed to the Backend
C9_Witness ==
    /\ Done /\ before = "rejected twice"
    /\ Forwarded(1)
    /\ received = 1

\* C10: under concurrent change of the Backend and with other calls in flight,
\* a call reads the header only after the mev switch and the turn, once, and
\* checks block number and parent hash against that one snapshot: a bid on its
\* way to the Backend matches number + 1 and hash of one and the same header,
\* which was the head of the chain at some instant of the call.
C10_OneHeaderSnapshot ==
    \A p \in Callers :
        /\ (pc[p] = "send" \/ Forwarded(p)) =>
               \E h \in seen[p] :
                   /\ currentHeader[p] = Some(h)
                   /\ Val(Val(args[p]).RawBid).BlockNumber = h.Number + 1
                   /\ Val(Val(args[p]).RawBid).ParentHash = Hash(h)
        /\ currentHeader[p] # Nil => Val(currentHeader[p]) \in seen[p]
        /\ pc[p] \in {"running", "inturn", "header"} => currentHeader[p] = Nil
        /\ (pc[p] = "done" /\ Val(ret[p]).err \in {"MevNotRunning", "MevNotInTurn"})
               => currentHeader[p] = Nil

\* a bid was handed to the Backend although by then the head had moved on,
\* bidding had stopped and the turn was over, while the other call is about
\* to hand in its own bid
C10_Witness ==
    \E p \in Callers : \E q \in Callers \ {p} :
        /\ Forwarded(p)
        /\ head # Val(currentHeader[p])
        /\ ~mevRunning
        /\ ~minerInTurn
        /\ pc[q] = "send"

====
